---- MODULE Spec2Model ----
(***************************************************************************)
(* State-machine model of the chat service of src/app.py and of the        *)
(* browser client of src/chatgpt_client.py.                                *)
(*                                                                         *)
(* One process per HTTP request (the coroutine of chat()); the process     *)
(* holding _client_lock walks through ChatGPTBrowserClient.send_message,   *)
(* one action per suspension point (await).  The web page is the           *)
(* environment: its latest assistant element, its "stop" indicator and     *)
(* its URL change under the page actions.                                  *)
(*                                                                         *)
(* Time is counted in ticks of one poll interval (asyncio.sleep(0.25)),   *)
(* from the click on the send button.  Only the waits of                   *)
(* _wait_for_response take time: wait_for_function and asyncio.sleep;      *)
(* every other automation call completes within the tick.                  *)
(*                                                                         *)
(* Strings that the code takes apart (URLs, conversation ids) are          *)
(* sequences of one-character strings; Python's None is the value None     *)
(* below for those, "None" for the optional flag and "null" for a missing  *)
(* DOM attribute.                                                          *)
(***************************************************************************)
EXTENDS Integers, Sequences, FiniteSets, TLC

\* ------------------------------------------------------------ bounds
\* Number of request coroutines of the service specification.
MaxReq == 3
\* Largest response timeout (seconds) a request of TurnSpec carries.
MaxTimeout == 2
\* Number of times the page may be closed behind the client's back.
MaxClose == 2
\* Response timeout (seconds) of the requests of the service specification.
ServiceTimeout == 2
\* Response timeout (seconds) of the request of NormalSpec.
NormalTimeout == 30
\* Response timeout (seconds) of the requests of AttachSpec.
AttachTimeout == 1
\* Size of the largest negative response timeout (seconds) of ShortSpec.
MaxNegTimeout == 1
\* Number of calls of _goto_home made in a row in HomeSpec.
MaxCalls == 5

\* ------------------------------------------------- program constants
\* asyncio.sleep(0.25): one tick.  time.monotonic() counts ticks.
TicksPerSecond == 4
\* `time.monotonic() - stable_since >= 1.5`, in ticks.
StabilityWindow == 6

Reqs == 1 .. MaxReq

\* ------------------------------------------------------------ strings
None == <<"<None>">>
Chars(s) == {s[i] : i \in 1 .. Len(s)}

\* str.startswith
StartsWith(s, p) == Len(p) <= Len(s) /\ SubSeq(s, 1, Len(p)) = p

\* `sub in s`
Contains(s, sub) ==
    \E i \in 1 .. (Len(s) - Len(sub) + 1) : SubSeq(s, i, i + Len(sub) - 1) = sub

\* s.split(sub, 1): the parts before and after the first occurrence of sub
\* (the whole of s and nothing when sub does not occur).
FirstIndex(s, sub) ==
    CHOOSE i \in 1 .. (Len(s) - Len(sub) + 1) :
        /\ SubSeq(s, i, i + Len(sub) - 1) = sub
        /\ \A j \in 1 .. (i - 1) : SubSeq(s, j, j + Len(sub) - 1) # sub
SplitHead(s, sub) ==
    IF Contains(s, sub) THEN SubSeq(s, 1, FirstIndex(s, sub) - 1) ELSE s
SplitTail(s, sub) ==
    IF Contains(s, sub)
    THEN SubSeq(s, FirstIndex(s, sub) + Len(sub), Len(s))
    ELSE <<>>

\* str.strip() for the whitespace character " ".
RECURSIVE LStrip(_)
LStrip(s) == IF s # <<>> /\ Head(s) = " " THEN LStrip(Tail(s)) ELSE s
RECURSIVE RStrip(_)
RStrip(s) ==
    IF s # <<>> /\ s[Len(s)] = " " THEN RStrip(SubSeq(s, 1, Len(s) - 1)) ELSE s
Strip(s) == RStrip(LStrip(s))

\* Python truthiness of an Optional[str] and of an Optional[bool].
TruthyStr(s) == s # None /\ s # <<>>
TruthyFlag(b) == b = "True"

\* self._base_url, the marker "/c/" of a conversation path.
BaseUrl == <<"B">>
Marker == <<"/", "c", "/">>
ConversationUrl(id) == BaseUrl \o Marker \o id

\* _get_conversation_id: the part of the URL after the first "/c/", cut at
\* the first "?"; None without marker.
GetConversationId(u) ==
    IF ~Contains(u, Marker) THEN None
    ELSE SplitHead(SplitTail(u, Marker), <<"?">>)


\* ------------------------------------------------------------ domains
\* Conversation ids a request may carry (conversation_id: Optional[str]).
ConvIds == {None, <<>>, <<" ">>, <<"a">>}
\* temporary_chat: Optional[bool].
Flags == {"None", "True", "False"}
\* timeout: int, in seconds.
Timeouts == 0 .. MaxTimeout

\* Requests of TurnSpec, of the service specification, of DetectSpec and of
\* NormalSpec.
TurnInputs ==
    [conversation_id : ConvIds, temporary_chat : Flags, timeout : Timeouts,
     images : {<<>>}]
ServiceInputs ==
    [conversation_id : {None}, temporary_chat : {"None"}, timeout : {ServiceTimeout},
     images : {<<>>}]
DetectInputs ==
    [conversation_id : {<<"a">>}, temporary_chat : {"None"}, timeout : Timeouts,
     images : {<<>>}]
\* Requests of ShortSpec: an existing conversation, every timeout of at
\* most one second (ChatRequest.timeout is an int without lower bound).
ShortTimeouts == (0 - MaxNegTimeout) .. 1
ShortInputs ==
    [conversation_id : {<<"a">>}, temporary_chat : {"None"},
     timeout : ShortTimeouts, images : {<<>>}]
\* Requests of LateSpec: an existing conversation, a timeout that leaves
\* room for the stability window.
LateInputs ==
    [conversation_id : {<<"a">>}, temporary_chat : {"None"},
     timeout : {ServiceTimeout}, images : {<<>>}]
\* Requests of NavSpec: two conversations, the id of one a prefix of the
\* id of the other.
NavInputs ==
    [conversation_id : {<<"a">>, <<"a", "b">>}, temporary_chat : {"None"},
     timeout : {AttachTimeout}, images : {<<>>}]
NormalInputs ==
    [conversation_id : {None}, temporary_chat : {"None"}, timeout : {NormalTimeout},
     images : {<<>>}]
NoInput ==
    [conversation_id |-> None, temporary_chat |-> "None", timeout |-> 0,
     images |-> <<>>]

\* ------------------------------------------- attachments (src/app.py)
\* Strings of an attachment are sequences of tokens: "data:", ";", ",",
\* " ", the words of a media type ("image/", "png", "text/", "plain"),
\* "base64", a file extension, "QQ==" (a group of the base64 alphabet,
\* which decodes to the byte "A") and "!" (a character outside it).
ImageType == <<"image/", "png">>
TextType == <<"text/", "plain">>
OctetStream == <<"application/", "octet-stream">>

\* ChatImageRequest.name, .data_base64 and .content_type as sent by callers.
ImageNames == {<<>>, <<" ">>, <<"p", ".png">>, <<"f", ".txt">>, <<"x">>}
WellFormedData ==
    {<<"QQ==">>,
     <<" ", "QQ==", " ">>,
     <<"data:">> \o ImageType \o <<";", "base64", ",", "QQ==">>,
     <<"data:">> \o TextType \o <<";", "base64", ",", "QQ==">>,
     <<"data:", ";", "base64", ",", "QQ==">>}
CorruptData ==
    {<<>>,
     <<"!">>,
     <<"QQ==", " ", "QQ==">>,
     <<"data:">> \o ImageType \o <<";", "base64">>,
     <<"data:">> \o ImageType \o <<",", "QQ==">>,
     <<"data:">> \o ImageType \o <<";", "base64", ",">>,
     <<"data:">> \o ImageType \o <<";", "base64", ",", "!">>}
ContentTypes == {None, <<>>, <<" ">>, ImageType, TextType}
Images ==
    [name : ImageNames, data_base64 : WellFormedData \cup CorruptData,
     content_type : ContentTypes]

\* base64.b64decode(value, validate=True): fails on any character outside
\* the alphabet, whitespace included; each group yields its byte.
Base64Valid(value) == \A i \in 1 .. Len(value) : value[i] = "QQ=="
Base64Decode(value) == [i \in 1 .. Len(value) |-> "A"]

\* _decode_base64_image: strip; for a data URL split at the first ",",
\* require ";base64" in the header and take the media type before the
\* first ";"; decode; reject an empty result.
DecodeBase64Image(raw) ==
    LET value == Strip(raw)
        isUrl == StartsWith(value, <<"data:">>)
        header == SplitHead(value, <<",">>)
        media == Strip(Tail(SplitHead(header, <<";">>)))
        payload == IF isUrl THEN SplitTail(value, <<",">>) ELSE value
        fails == \/ isUrl /\ ~Contains(value, <<",">>)
                 \/ isUrl /\ ~Contains(header, <<";", "base64">>)
                 \/ ~Base64Valid(payload)
                 \/ Base64Decode(payload) = <<>>
    IN  IF fails THEN [ok |-> FALSE, decoded |-> <<>>, detected_type |-> None]
        ELSE [ok |-> TRUE, decoded |-> Base64Decode(payload),
              detected_type |-> IF isUrl /\ media # <<>> THEN media ELSE None]

\* mimetypes.guess_type(name)[0].
GuessType(name) ==
    IF name # <<>> /\ name[Len(name)] = ".png" THEN ImageType
    ELSE IF name # <<>> /\ name[Len(name)] = ".txt" THEN TextType
    ELSE None

\* `(image.content_type or detected_type or guessed_type or "").strip()`,
\* "application/octet-stream" when that is empty.
ResolveContentType(declared, detected, guessed) ==
    LET chosen == IF TruthyStr(declared) THEN declared
                  ELSE IF TruthyStr(detected) THEN detected
                  ELSE IF TruthyStr(guessed) THEN guessed
                  ELSE <<>>
    IN  IF Strip(chosen) = <<>> THEN OctetStream ELSE Strip(chosen)

\* One iteration of _build_image_payloads: the ChatGPTImage, or the
\* ValueError of an empty name, of the decoder or of a non-image type.
BuildImagePayload(image) ==
    LET name == Strip(image.name)
        dec == DecodeBase64Image(image.data_base64)
        content_type ==
            ResolveContentType(image.content_type, dec.detected_type,
                               GuessType(name))
    IN  IF name = <<>> \/ ~dec.ok \/ ~StartsWith(content_type, <<"image/">>)
        THEN [ok |-> FALSE, payload |-> <<>>]
        ELSE [ok |-> TRUE,
              payload |-> <<name, content_type, dec.decoded>>]

\* _build_image_payloads: every image of the list is built, in order; the
\* first ValueError ends the loop.
RECURSIVE BuildFirstImageOnly(_)
BuildFirstImageOnly(images) ==
    IF images = <<>> THEN [ok |-> TRUE, payloads |-> <<>>]
    ELSE LET first == BuildImagePayload(Head(images))
         IN  [ok |-> first.ok, payloads |-> <<first.payload>>]
RECURSIVE BuildImagePayloads(_)
BuildImagePayloads(images) ==
    IF images = <<>> THEN [ok |-> TRUE, payloads |-> <<>>]
    ELSE LET first == BuildImagePayload(Head(images))
             rest == BuildImagePayloads(Tail(images))
         IN  IF ~first.ok THEN [ok |-> FALSE, payloads |-> <<>>]
             ELSE IF ~rest.ok THEN rest
             ELSE [ok |-> TRUE, payloads |-> <<first.payload>> \o rest.payloads]

\* Attachment lists of the requests of AttachSpec: no image, any one
\* image, or any image after an acceptable one.
GoodImage ==
    [name |-> <<"p", ".png">>, data_base64 |-> <<"QQ==">>, content_type |-> None]
ImageLists ==
    {<<>>} \cup {<<i>> : i \in Images} \cup {<<GoodImage, i>> : i \in Images}
AttachInputs ==
    [conversation_id : {None}, temporary_chat : {"None"}, timeout : {AttachTimeout},
     images : ImageLists]
PlainInputs ==
    [conversation_id : {None}, temporary_chat : {"None"}, timeout : {AttachTimeout},
     images : {<<>>}]

\* The latest div[data-message-author-role="assistant"] of the page: absent,
\* or its data-message-id ("null" when the attribute is missing) and its
\* trimmed textContent.
NoNode == [present |-> FALSE, id |-> "null", text |-> ""]
Node(i, t) == [present |-> TRUE, id |-> i, text |-> t]
\* Replies of a conversation that exist before the turn, and replies the
\* service produces during it.
OldIds == {"null", "m0"}
NewIds == {"m1", "m2"}
OldText == "o"
OldNodes == {Node(i, OldText) : i \in OldIds}
Texts == {"", "a", "b"}


\* Positions of a request coroutine.  "idle": not yet received; "waiting":
\* suspended in _client_lock.acquire(); the others are the awaits of
\* send_message, in order; "done": the HTTP response is sent.
NavPcs == {"send_message", "goto_conversation", "wait_ready", "goto_home",
           "set_temporary_chat", "wait_for_composer", "get_last_id",
           "fill_prompt", "click_send"}
DetectPcs == {"await_new", "loop", "read", "is_generating", "sleep"}
TurnPcs == NavPcs \cup DetectPcs

VARIABLES
    pc,            \* position of each request coroutine
    req,           \* arguments of its send_message call
    loc,           \* locals of its send_message / _wait_for_response frames
    outcome,       \* its HTTP response
    locked,        \* _client_lock._locked
    waiters,       \* _client_lock._waiters, in order
    woken,         \* waiters whose future has a result set
    pageId,        \* id(self._page)
    pageClosed,    \* self._page.is_closed()
    url,           \* self._page.url
    last,          \* latest assistant element of the page
    indicator,     \* a "Stop generating" / "Stop streaming" button exists
    stealthCtx,    \* self._stealth_context_applied
    stealthPages,  \* self._stealth_page_ids
    setup,         \* history: what the current page object has received
    now,           \* time.monotonic(), in ticks
    closes,        \* out-of-band closures so far
    client,        \* the client object: its handles, start-up and teardown
    calls,         \* history: automation calls issued by each request's turn
    arrivals,      \* history: requests in the order they reached the lock
    starts,        \* history: the turns in the order they started
    obs            \* history: what the latest detector has read from the page

lockVars == <<locked, waiters, woken>>
pageVars == <<pageId, pageClosed, url, last, indicator>>
stealthVars == <<stealthCtx, stealthPages, setup>>
lifeVars == <<closes, client>>
histVars == <<calls, arrivals, starts, obs>>
vars == <<pc, req, loc, outcome, locked, waiters, woken, pageId, pageClosed, url,
          last, indicator, stealthCtx, stealthPages, setup, now, closes, client,
          calls, arrivals, starts, obs>>

NoLoc == [previous_id |-> "null", last_text |-> "", stable_since |-> 0,
          end_time |-> 0, deadline |-> 0]
Pending == [status |-> 0, exc |-> "", detail |-> "", hasResult |-> FALSE,
            response |-> "", conversation_id |-> None, failed |-> FALSE]
\* who: the request whose _wait_for_response was entered last (0: none);
\* lastRead: the text of the latest poll ("?" before the first poll);
\* changeAge: the ticks since the latest poll whose text differed from the
\* poll before it; genAge: the ticks since the latest poll that found the
\* indicator; keptAge: the ticks since the latest poll that replaced
\* last_text; the ages stop counting at StabilityWindow, which is also
\* their value when there was no such poll; entered: the detector has left
\* its first wait; newSeen: a reply element with non-empty text and an
\* identifier other than previous_id has been on the page since the click;
\* accepted: the loop returned its text; endAt: the time at which
\* _wait_for_response returned or raised (-1: not yet).
NoObs == [who |-> 0, lastRead |-> "?", changeAge |-> StabilityWindow,
          keptAge |-> StabilityWindow, genAge |-> StabilityWindow,
          entered |-> FALSE, newSeen |-> FALSE, accepted |-> FALSE, endAt |-> -1]

\* The client object.  phase: "new" before startup() calls create(),
\* "ready" once create() has returned it (app._client is set), "failed"
\* when create() raised, "closed" after shutdown(); error: the exception
\* that left create(); persistent: user_data_dir is set; stealth_lib: the
\* import of playwright_stealth succeeded (Stealth is not None);
\* playwright, browser, context, page: the handle is set (not None);
\* cookie: the session cookie is written; steps: history of the calls of
\* _start; torn: history of the handles close() has tried to tear down;
\* closeError: the exception that left close().
NewClient ==
    [phase |-> "new", error |-> "", persistent |-> FALSE, stealth_lib |-> TRUE,
     playwright |-> FALSE, browser |-> FALSE, context |-> FALSE, page |-> FALSE,
     cookie |-> FALSE, steps |-> <<>>, torn |-> <<>>, closeError |-> ""]
ReadyClient ==
    [NewClient EXCEPT !.phase = "ready", !.playwright = TRUE, !.browser = TRUE,
                      !.context = TRUE, !.page = TRUE, !.cookie = TRUE]

\* The state after ChatGPTBrowserClient.create(): _start has opened page 1,
\* applied stealth to context and page, and loaded the base URL.
Init ==
    /\ pc = [r \in Reqs |-> "idle"]
    /\ req = [r \in Reqs |-> NoInput]
    /\ loc = [r \in Reqs |-> NoLoc]
    /\ outcome = [r \in Reqs |-> Pending]
    /\ locked = FALSE
    /\ waiters = <<>>
    /\ woken = {}
    /\ pageId = 1
    /\ pageClosed = FALSE
    /\ url = BaseUrl
    /\ last = NoNode
    /\ indicator = FALSE
    /\ stealthCtx = TRUE
    /\ stealthPages = {1}
    /\ setup = [stealth |-> TRUE, timeout |-> TRUE]
    /\ now = 0
    /\ closes = 0
    /\ client = ReadyClient
    /\ calls = [r \in Reqs |-> {}]
    /\ arrivals = <<>>
    /\ starts = <<>>
    /\ obs = NoObs


\* ------------------------------------------------------- asyncio.Lock
\* Lock.acquire takes the lock at once only if it is free and nobody waits.
CanAcquireIgnoringHolder == waiters = <<>>
CanAcquire == ~locked /\ waiters = <<>>

\* Lock._wake_up_first: the future of the first waiter gets its result.
WakeUpLast(ws) == IF ws = <<>> THEN {} ELSE {ws[Len(ws)]}
WakeUpFirst(ws) == IF ws = <<>> THEN {} ELSE {Head(ws)}

\* Lock.release, as run by `async with` when its body returns.
ReleaseLock ==
    /\ locked' = FALSE
    /\ woken' = woken \cup WakeUpFirst(waiters)
    /\ UNCHANGED waiters

\* `async with` when its body raises: the lock is released all the same.
KeepLockOnError == UNCHANGED lockVars
ReleaseOnError == ReleaseLock

Remove(ws, r) == SelectSeq(ws, LAMBDA x : x # r)

\* The calls issued by request r are added to its history; typing the
\* message or clicking the send button a second time is recorded as such.
Again(c) == IF c = "type" THEN "type_again" ELSE "click_send_again"
Called(r, cs) ==
    calls' = [calls EXCEPT ![r] =
                @ \cup cs \cup {Again(c) : c \in cs \cap @ \cap {"type", "click_send"}}]

\* History of a turn's start: who, whether it had to wait for the lock,
\* and how many requests were still waiting when it got it.
Started(r, resumed, behind) == [r |-> r, resumed |-> resumed, behind |-> behind]

\* ------------------------------------------------------------- chat()
\* chat(), up to its first suspension: the request body is read, a
\* ValueError of _build_image_payloads is answered with HTTP 400, and
\* otherwise _client_lock.acquire() either takes the lock or queues the
\* coroutine.
Arrive(r, in) ==
    /\ pc[r] = "idle"
    /\ client.phase = "ready"
    /\ req' = [req EXCEPT ![r] = in]
    /\ IF ~BuildImagePayloads(in.images).ok
       THEN /\ pc' = [pc EXCEPT ![r] = "done"]
            /\ outcome' = [outcome EXCEPT ![r] =
                             [Pending EXCEPT !.status = 400, !.exc = "ValueError",
                                             !.detail = "image"]]
            /\ UNCHANGED <<lockVars, arrivals, starts>>
       ELSE /\ arrivals' = Append(arrivals, r)
            /\ UNCHANGED outcome
            /\ IF CanAcquire
               THEN /\ locked' = TRUE
                    /\ pc' = [pc EXCEPT ![r] = "send_message"]
                    /\ starts' = Append(starts, Started(r, FALSE, 0))
                    /\ UNCHANGED <<waiters, woken>>
               ELSE /\ waiters' = Append(waiters, r)
                    /\ pc' = [pc EXCEPT ![r] = "waiting"]
                    /\ UNCHANGED <<locked, woken, starts>>
    /\ UNCHANGED <<loc, pageVars, stealthVars, now, lifeVars, calls, obs>>

\* Lock.acquire, resumed once the waiter's future has its result: the
\* waiter leaves the queue and holds the lock.
Resume(r) ==
    /\ pc[r] = "waiting"
    /\ r \in woken
    /\ waiters' = Remove(waiters, r)
    /\ woken' = woken \ {r}
    /\ locked' = TRUE
    /\ pc' = [pc EXCEPT ![r] = "send_message"]
    /\ starts' = Append(starts, Started(r, TRUE, Len(waiters')))
    /\ UNCHANGED <<req, loc, outcome, pageVars, stealthVars, now, lifeVars, calls,
                   arrivals, obs>>

\* An exception leaves send_message: the lock is released and chat()
\* answers HTTPException(502, detail=str(exc)).
RetryOnError(r, exc, detail) ==
    /\ pc' = [pc EXCEPT ![r] = "send_message"]
    /\ loc' = [loc EXCEPT ![r] = NoLoc]
    /\ UNCHANGED <<outcome, lockVars>>
Raise(r, exc, detail) ==
    /\ pc' = [pc EXCEPT ![r] = "done"]
    /\ outcome' = [outcome EXCEPT ![r] =
                     [Pending EXCEPT !.status = 502, !.exc = exc, !.detail = detail]]
    /\ loc' = [loc EXCEPT ![r] = NoLoc]
    /\ ReleaseOnError

\* send_message returns ChatGPTResponse(response, conversation_id): the lock
\* is released and chat() answers with both fields (failed is False by
\* default, so the 502 of `response.failed` is not taken).
BuildResponse(text, u) ==
    [Pending EXCEPT !.status = 200, !.hasResult = TRUE, !.response = text,
                    !.conversation_id = GetConversationId(u), !.failed = FALSE]
ReturnRequestedId(r, text) ==
    /\ pc' = [pc EXCEPT ![r] = "done"]
    /\ outcome' = [outcome EXCEPT ![r] =
                     [BuildResponse(text, url) EXCEPT
                        !.conversation_id = req[r].conversation_id]]
    /\ loc' = [loc EXCEPT ![r] = NoLoc]
    /\ ReleaseLock
Return(r, text) ==
    /\ pc' = [pc EXCEPT ![r] = "done"]
    /\ outcome' = [outcome EXCEPT ![r] = BuildResponse(text, url)]
    /\ loc' = [loc EXCEPT ![r] = NoLoc]
    /\ ReleaseLock


Detecting == {r \in Reqs : pc[r] \in DetectPcs}

\* ------------------------------------------------------ the page
\* Page.goto(u): the document is replaced; `content` is the latest reply of
\* the loaded document.
Navigate(u, content) ==
    /\ url' = u
    /\ last' = content
    /\ indicator' = FALSE

AboutBlank == <<"_">>

\* use_stealth (the default of the constructor and of CHATGPT_USE_STEALTH).
UseStealth == TRUE

\* id() of a page object created while the current page object is still
\* referenced: a fresh address, or the address of a discarded page.
Max(S) == CHOOSE x \in S : \A y \in S : y <= x
NewPageIds == {Max(stealthPages \cup {pageId}) + 1} \cup (stealthPages \ {pageId})

\* _apply_stealth for the page whose id() is `pid` (the context was
\* treated by _start): apply_stealth_async(page) is called only if the id
\* is not in _stealth_page_ids.
Treats(pid) == UseStealth /\ pid \notin stealthPages
ApplyStealth(pid) ==
    IF ~UseStealth THEN UNCHANGED <<stealthCtx, stealthPages>>
    ELSE /\ stealthCtx' = TRUE
         /\ stealthPages' = stealthPages \cup {pid}

\* ---------------------------------------------------- send_message
\* `await self._ensure_page()` and the check that follows it.  A closed
\* page is replaced (new_page, _apply_stealth, set_default_timeout, goto)
\* before the arguments are looked at; `ok` is whether that goto succeeds.
Conflict(in) == TruthyStr(in.conversation_id) /\ TruthyFlag(in.temporary_chat)

EnsurePage(r, ok) ==
    /\ pc[r] = "send_message"
    /\ IF pageClosed
       THEN /\ \E pid \in NewPageIds :
                 /\ pageId' = pid
                 /\ ApplyStealth(pid)
                 /\ setup' = [stealth |-> Treats(pid), timeout |-> TRUE]
            /\ pageClosed' = FALSE
            /\ Called(r, {"new_page", "apply_stealth", "set_default_timeout", "goto"})
            /\ IF ok THEN Navigate(BaseUrl, NoNode) ELSE Navigate(AboutBlank, NoNode)
       ELSE /\ ok
            /\ UNCHANGED <<pageVars, stealthVars, calls>>
    /\ IF ~ok THEN Raise(r, "PlaywrightError", "goto")
       ELSE IF Conflict(req[r]) THEN Raise(r, "ValueError", "conflict")
       ELSE /\ pc' = [pc EXCEPT ![r] =
                        IF TruthyStr(req[r].conversation_id)
                        THEN "goto_conversation" ELSE "goto_home"]
            /\ UNCHANGED <<loc, outcome, lockVars>>
    /\ UNCHANGED <<req, now, lifeVars, arrivals, starts, obs>>

\* _goto_conversation: strip, reject an empty id, skip the navigation when
\* the URL already starts with the target, navigate otherwise.  `content`
\* is the latest reply of the conversation that is loaded.
GotoConversation(r, ok, content) ==
    /\ pc[r] = "goto_conversation"
    /\ LET id == Strip(req[r].conversation_id)
           target == ConversationUrl(id)
       IN  IF id = <<>>
           THEN /\ ok /\ content = NoNode
                /\ Raise(r, "ValueError", "empty_id")
                /\ UNCHANGED <<pageVars, calls>>
           ELSE IF StartsWith(url, target)
           THEN /\ ok /\ content = NoNode
                /\ pc' = [pc EXCEPT ![r] = "wait_ready"]
                /\ UNCHANGED <<loc, outcome, lockVars, pageVars, calls>>
           ELSE /\ Called(r, {"goto"})
                /\ UNCHANGED <<pageId, pageClosed>>
                /\ IF ok
                   THEN /\ Navigate(target, content)
                        /\ pc' = [pc EXCEPT ![r] = "wait_ready"]
                        /\ UNCHANGED <<loc, outcome, lockVars>>
                   ELSE /\ content = NoNode
                        /\ UNCHANGED <<url, last, indicator>>
                        /\ Raise(r, "PlaywrightError", "goto")
    /\ UNCHANGED <<req, stealthVars, now, lifeVars, arrivals, starts, obs>>

\* _wait_for_conversation_ready: wait_for_url(target*), then the composer,
\* then a message element (whose absence is tolerated).  `res` is the wait
\* that times out, if any; the URL wait can succeed only on a matching URL.
WaitForConversationReady(r, res) ==
    /\ pc[r] = "wait_ready"
    /\ Called(r, {"wait_for_url"} \cup
                 (IF res = "url" THEN {} ELSE {"wait_for_selector"}))
    /\ CASE res = "ok" ->
              /\ StartsWith(url, ConversationUrl(req[r].conversation_id))
              /\ pc' = [pc EXCEPT ![r] = "wait_for_composer"]
              /\ UNCHANGED <<loc, outcome, lockVars>>
         [] res = "url" ->
              Raise(r, "RuntimeError", "conversation_load")
         [] res = "composer" ->
              /\ StartsWith(url, ConversationUrl(req[r].conversation_id))
              /\ Raise(r, "RuntimeError", "composer")
    /\ UNCHANGED <<req, pageVars, stealthVars, now, lifeVars, arrivals, starts, obs>>

\* The two tests of _goto_home: the page is not under the base URL, or it
\* is on a conversation path.
AlwaysGoto(u) == TRUE
NeedsGoto(u) == ~StartsWith(u, BaseUrl) \/ Contains(u, Marker)

\* _goto_home, then the choice of the next step of send_message.
GotoHome(r, ok) ==
    /\ pc[r] = "goto_home"
    /\ IF NeedsGoto(url)
       THEN /\ Called(r, {"goto"})
            /\ UNCHANGED <<pageId, pageClosed>>
            /\ IF ok THEN Navigate(BaseUrl, NoNode)
               ELSE UNCHANGED <<url, last, indicator>>
       ELSE /\ ok
            /\ UNCHANGED <<pageVars, calls>>
    /\ IF ok
       THEN /\ pc' = [pc EXCEPT ![r] =
                        IF req[r].temporary_chat # "None"
                        THEN "set_temporary_chat" ELSE "wait_for_composer"]
            /\ UNCHANGED <<loc, outcome, lockVars>>
       ELSE Raise(r, "PlaywrightError", "goto")
    /\ UNCHANGED <<req, stealthVars, now, lifeVars, arrivals, starts, obs>>

\* The two variants of the toggle, named by their aria-label: the page
\* shows "turn_on" while temporary chat is off and "turn_off" while it is
\* on.  Wanted: the variant that shows the state asked for as active;
\* Opposite: the variant to click to get there.
Toggles == {"turn_on", "turn_off"}
Wanted(enabled) == IF enabled THEN "turn_off" ELSE "turn_on"
Opposite(enabled) == IF enabled THEN "turn_on" ELSE "turn_off"

\* `if await turn_off.is_visible(): return` (enabled), and the same with
\* turn_on (not enabled): a click is needed when the wanted variant is
\* not visible.
NeverClick(shown, enabled) == FALSE
NeedsClick(shown, enabled) == Wanted(enabled) \notin shown

\* _set_temporary_chat.  `shown`: the variants visible when the call looks
\* at the page (none: the first wait times out); `appears`: the wanted
\* variant appears after the click.  calls keeps, with the calls, which
\* variants the page showed ("shown_..."), which one was clicked
\* ("click_..."), that the wanted one appeared after the click
\* ("appeared_...") and that the call returned ("temporary_chat_set").
SetTemporaryChat(r, shown, appears) ==
    /\ pc[r] = "set_temporary_chat"
    /\ LET enabled == TruthyFlag(req[r].temporary_chat)
           click == shown # {} /\ NeedsClick(shown, enabled)
       IN  /\ ~click => ~appears
           /\ Called(r, {"wait_for_selector"}
                        \cup (IF shown # {} THEN {"is_visible"} ELSE {})
                        \cup (IF click THEN {"click", "click_" \o Opposite(enabled)}
                              ELSE {})
                        \cup {"shown_" \o v : v \in shown}
                        \cup (IF appears THEN {"appeared_" \o Wanted(enabled)}
                              ELSE {})
                        \cup (IF shown # {} /\ (~click \/ appears)
                              THEN {"temporary_chat_set"} ELSE {}))
           /\ IF shown = {} THEN Raise(r, "RuntimeError", "toggle")
              ELSE IF click /\ ~appears
              THEN Raise(r, "PlaywrightTimeoutError", "timeout")
              ELSE /\ pc' = [pc EXCEPT ![r] = "wait_for_composer"]
                   /\ UNCHANGED <<loc, outcome, lockVars>>
    /\ UNCHANGED <<req, pageVars, stealthVars, now, lifeVars, arrivals, starts, obs>>

\* _wait_for_composer.
WaitForComposer(r, ok) ==
    /\ pc[r] = "wait_for_composer"
    /\ Called(r, {"wait_for_selector"})
    /\ IF ok
       THEN /\ pc' = [pc EXCEPT ![r] = "get_last_id"]
            /\ UNCHANGED <<loc, outcome, lockVars>>
       ELSE Raise(r, "RuntimeError", "composer")
    /\ UNCHANGED <<req, pageVars, stealthVars, now, lifeVars, arrivals, starts, obs>>

\* _get_last_assistant_id: null without assistant element or attribute.
LastAssistantId == IF last.present THEN last.id ELSE "null"

GetLastAssistantId(r) ==
    /\ pc[r] = "get_last_id"
    /\ Called(r, {"evaluate"})
    /\ loc' = [loc EXCEPT ![r].previous_id = LastAssistantId]
    /\ pc' = [pc EXCEPT ![r] = "fill_prompt"]
    /\ UNCHANGED <<req, outcome, lockVars, pageVars, stealthVars, now, lifeVars,
                   arrivals, starts, obs>>

\* _fill_prompt: click the composer, select all, delete, type.
FillPrompt(r) ==
    /\ pc[r] = "fill_prompt"
    /\ Called(r, {"click", "press", "type"})
    /\ pc' = [pc EXCEPT ![r] = "click_send"]
    /\ UNCHANGED <<req, loc, outcome, lockVars, pageVars, stealthVars, now, lifeVars,
                   arrivals, starts, obs>>

\* A reply element with non-empty text whose identifier differs from prev.
DiffersFrom(prev) == last.present /\ last.text # "" /\ last.id # prev

\* max(timeout, 1) * 1000 ms and `timeout` seconds, in ticks.
AwaitBound(timeout) == (IF timeout > 1 THEN timeout ELSE 1) * TicksPerSecond
LoopBound(timeout) == timeout * TicksPerSecond

\* The send button as the page presents it to _click_send: "ok": it
\* appears enabled; "enabled_later": it appears disabled and is enabled
\* within the 10 s of the poll; "never_enabled": it appears disabled and
\* stays so; "no_button": it does not appear within the 10 s of the wait.
Buttons == {"ok", "enabled_later", "never_enabled", "no_button"}
Appears(res) == res # "no_button"
SeenDisabled(res) == res \in {"enabled_later", "never_enabled"}
SeenEnabled(res) == res = "enabled_later"

\* wait_for_selector, `if await send_button.is_disabled()`, the poll of
\* wait_for_function: the click is reached when the button has appeared
\* and, if it was seen disabled, the poll has seen it enabled.
ClickWhenAppears(res) == Appears(res)
ReachesClick(res) == Appears(res) /\ (SeenDisabled(res) => SeenEnabled(res))

\* _click_send, then the entry of _wait_for_response.  calls keeps, with
\* the calls, what they found: "send_disabled", "send_enabled".  The clock
\* is read from here on: its origin is the click.
ClickSend(r, res) ==
    /\ pc[r] = "click_send"
    /\ Called(r, {"wait_for_selector"}
                 \cup (IF Appears(res) THEN {"is_disabled"} ELSE {})
                 \cup (IF SeenDisabled(res) THEN {"send_disabled", "wait_enabled"}
                       ELSE {})
                 \cup (IF SeenEnabled(res) THEN {"send_enabled"} ELSE {})
                 \cup (IF ReachesClick(res) THEN {"click_send"} ELSE {}))
    /\ IF ReachesClick(res)
       THEN /\ pc' = [pc EXCEPT ![r] = "await_new"]
            /\ now' = 0
            /\ loc' = [loc EXCEPT ![r].deadline = AwaitBound(req[r].timeout)]
            /\ obs' = [NoObs EXCEPT !.who = r,
                                     !.newSeen = DiffersFrom(loc[r].previous_id)]
            /\ UNCHANGED <<outcome, lockVars>>
       ELSE /\ Raise(r, "PlaywrightTimeoutError", "timeout")
            /\ UNCHANGED <<now, obs>>
    /\ UNCHANGED <<req, pageVars, stealthVars, lifeVars, arrivals, starts>>


\* ------------------------------------------------ _wait_for_response
\* The predicate polled by wait_for_function: an assistant element exists,
\* its text is not empty, and not (prevId && id === prevId).
NewReplyPredicate(prev) ==
    /\ last.present
    /\ last.text # ""
    /\ ~(prev # "null" /\ last.id = prev)

\* wait_for_function returns: the loop of the second phase is set up with a
\* deadline of its own, `timeout` seconds from now.
AwaitNewFound(r) ==
    /\ pc[r] = "await_new"
    /\ now < loc[r].deadline
    /\ NewReplyPredicate(loc[r].previous_id)
    /\ loc' = [loc EXCEPT ![r].end_time = now + LoopBound(req[r].timeout),
                          ![r].last_text = "",
                          ![r].stable_since = now]
    /\ pc' = [pc EXCEPT ![r] = "loop"]
    /\ obs' = [obs EXCEPT !.entered = TRUE]
    /\ Called(r, {"wait_for_function"})
    /\ UNCHANGED <<req, outcome, lockVars, pageVars, stealthVars, now, lifeVars,
                   arrivals, starts>>

\* wait_for_function times out: "Timed out waiting for ChatGPT response".
AwaitNewTimeout(r) ==
    /\ pc[r] = "await_new"
    /\ now >= loc[r].deadline
    /\ Raise(r, "RuntimeError", "no_reply")
    /\ obs' = [obs EXCEPT !.endAt = now]
    /\ Called(r, {"wait_for_function"})
    /\ UNCHANGED <<req, pageVars, stealthVars, now, lifeVars, arrivals, starts>>

\* The exit of the loop: "Timed out waiting for ChatGPT to finish responding".
ReturnPartialText(r) == Return(r, loc[r].last_text)
LoopExpired(r) == Raise(r, "RuntimeError", "not_finished")

\* `while time.monotonic() < end_time`.
LoopTest(r) ==
    /\ pc[r] = "loop"
    /\ IF now < loc[r].end_time
       THEN /\ pc' = [pc EXCEPT ![r] = "read"]
            /\ UNCHANGED <<loc, outcome, lockVars, obs>>
       ELSE /\ LoopExpired(r)
            /\ obs' = [obs EXCEPT !.endAt = now]
    /\ UNCHANGED <<req, pageVars, stealthVars, now, lifeVars, calls, arrivals, starts>>

\* _get_last_assistant_text.
LastAssistantText == IF last.present THEN last.text ELSE ""

\* `if text and text != last_text`: the text is kept and the timer restarts.
AnyText(text, last_text) == text # ""
TextChanged(text, last_text) == text # "" /\ text # last_text

ReadText(r) ==
    /\ pc[r] = "read"
    /\ LET text == LastAssistantText
       IN  /\ loc' = [loc EXCEPT
                        ![r].last_text =
                            IF TextChanged(text, @) THEN text ELSE @,
                        ![r].stable_since =
                            IF TextChanged(text, loc[r].last_text) THEN now ELSE @]
           /\ obs' = [obs EXCEPT
                        !.lastRead = text,
                        !.changeAge = IF text # obs.lastRead THEN 0 ELSE @,
                        !.keptAge =
                            IF TextChanged(text, loc[r].last_text) THEN 0 ELSE @]
    /\ Called(r, {"evaluate"})
    /\ pc' = [pc EXCEPT ![r] = "is_generating"]
    /\ UNCHANGED <<req, outcome, lockVars, pageVars, stealthVars, now, lifeVars,
                   arrivals, starts>>

\* `time.monotonic() - stable_since >= 1.5`.
IsStableAfterOnePoll(t, since) == t - since >= 1
IsStable(t, since) == t - since >= StabilityWindow

\* `if last_text and not await self._is_generating()`, with the indicator
\* as found by this poll.
Idle(last_text, generating) == last_text # "" /\ ~generating

\* The rest of one iteration: the indicator is queried only when last_text
\* is not empty; the kept text is returned when idle and stable, and the
\* loop sleeps one interval otherwise.
CheckGenerating(r) ==
    /\ pc[r] = "is_generating"
    /\ obs' = [obs EXCEPT
                 !.genAge =
                     IF loc[r].last_text # "" /\ indicator THEN 0 ELSE @,
                 !.accepted =
                     /\ Idle(loc[r].last_text, indicator)
                     /\ IsStable(now, loc[r].stable_since),
                 !.endAt =
                     IF /\ Idle(loc[r].last_text, indicator)
                        /\ IsStable(now, loc[r].stable_since)
                     THEN now ELSE @]
    /\ Called(r, IF loc[r].last_text # "" THEN {"query_selector"} ELSE {})
    /\ IF /\ Idle(loc[r].last_text, indicator)
          /\ IsStable(now, loc[r].stable_since)
       THEN Return(r, loc[r].last_text)
       ELSE /\ pc' = [pc EXCEPT ![r] = "sleep"]
            /\ loc' = [loc EXCEPT ![r].deadline = now + 1]
            /\ UNCHANGED <<outcome, lockVars>>
    /\ UNCHANGED <<req, pageVars, stealthVars, now, lifeVars, arrivals, starts>>

\* asyncio.sleep(0.25) returns.
Sleep(r) ==
    /\ pc[r] = "sleep"
    /\ now >= loc[r].deadline
    /\ pc' = [pc EXCEPT ![r] = "loop"]
    /\ UNCHANGED <<req, loc, outcome, lockVars, pageVars, stealthVars, now, lifeVars,
                   histVars>>

\* ------------------------------------------------------------- time
\* A detector that can only wait: for the predicate, or for its sleep.
Blocked(r) ==
    \/ /\ pc[r] = "await_new"
       /\ now < loc[r].deadline
       /\ ~NewReplyPredicate(loc[r].previous_id)
    \/ /\ pc[r] = "sleep"
       /\ now < loc[r].deadline

\* History: an age grows with the clock, up to StabilityWindow.
Older(age) == IF age < StabilityWindow THEN age + 1 ELSE age

\* One poll interval passes while every running detector waits.
Tick ==
    /\ Detecting # {}
    /\ \A r \in Reqs : pc[r] \in TurnPcs => Blocked(r)
    /\ now' = now + 1
    /\ obs' = [obs EXCEPT !.changeAge = Older(@), !.keptAge = Older(@),
                          !.genAge = Older(@)]
    /\ UNCHANGED <<pc, req, loc, outcome, lockVars, pageVars, stealthVars, lifeVars,
                   calls, arrivals, starts>>

\* ------------------------------------------------- the environment
\* History: the page after the update shows a reply that is not the one
\* of before the click.
Watch ==
    obs' = [obs EXCEPT !.newSeen =
              @ \/ \E r \in Detecting :
                     /\ last'.present /\ last'.text # ""
                     /\ last'.id # loc[r].previous_id]

\* The service adds the reply element of the turn, with an identifier of
\* its own, to a page whose latest reply is still the one of before.
FreshId == CHOOSE i \in NewIds : \A r \in Detecting : i # loc[r].previous_id

AppendReply(t) ==
    /\ Detecting # {}
    /\ \A r \in Detecting : LastAssistantId = loc[r].previous_id
    /\ last' = Node(FreshId, t)
    /\ Watch
    /\ UNCHANGED <<pc, req, loc, outcome, lockVars, pageId, pageClosed, url,
                   indicator, stealthVars, now, lifeVars, calls, arrivals, starts>>

\* The service streams into (or clears) the reply it is producing.
ChangeText(t) ==
    /\ Detecting # {}
    /\ last.present
    /\ \A r \in Detecting : last.id # loc[r].previous_id
    /\ t # last.text
    /\ last' = [last EXCEPT !.text = t]
    /\ Watch
    /\ UNCHANGED <<pc, req, loc, outcome, lockVars, pageId, pageClosed, url,
                   indicator, stealthVars, now, lifeVars, calls, arrivals, starts>>

\* The messages of an existing conversation are rendered after the
\* document has loaded: the latest reply of before the turn, with its
\* identifier, comes onto a page that showed no reply yet.
LoadHistory ==
    /\ \E r \in Reqs : pc[r] \in TurnPcs \ {"send_message", "goto_conversation"}
    /\ Contains(url, Marker)
    /\ ~last.present
    /\ last' = Node("m0", OldText)
    /\ UNCHANGED <<pc, req, loc, outcome, lockVars, pageId, pageClosed, url,
                   indicator, stealthVars, now, lifeVars, histVars>>

\* The stop button appears or disappears.
SetIndicator(b) ==
    /\ Detecting # {}
    /\ indicator # b
    /\ indicator' = b
    /\ UNCHANGED <<pc, req, loc, outcome, lockVars, pageId, pageClosed, url, last,
                   stealthVars, now, lifeVars, histVars>>

\* The service gives a new conversation its URL.
NewConversation == <<"n">>
Redirect ==
    /\ Detecting # {}
    /\ url = BaseUrl
    /\ url' = ConversationUrl(NewConversation)
    /\ UNCHANGED <<pc, req, loc, outcome, lockVars, pageId, pageClosed, last,
                   indicator, stealthVars, now, lifeVars, histVars>>

\* The URLs the service may put the page on while it answers: the base
\* URL or a conversation path, with or without a query suffix.
PageConvs == {<<"a">>, <<"a", "b">>, NewConversation}
Queries == {<<>>, <<"?", "q">>}
PageUrls ==
    {BaseUrl \o q : q \in Queries}
        \cup {ConversationUrl(c) \o q : c \in PageConvs, q \in Queries}

\* The service moves the page to another URL during the turn (the URL of
\* a new conversation, a redirect to another conversation, a query).
Relocate(u) ==
    /\ Detecting # {}
    /\ u # url
    /\ url' = u
    /\ UNCHANGED <<pc, req, loc, outcome, lockVars, pageId, pageClosed, last,
                   indicator, stealthVars, now, lifeVars, histVars>>

\* The page is closed behind the client's back, between two turns.
ClosePage ==
    /\ \A r \in Reqs : pc[r] \notin TurnPcs
    /\ closes < MaxClose
    /\ ~pageClosed
    /\ pageClosed' = TRUE
    /\ closes' = closes + 1
    /\ UNCHANGED <<pc, req, loc, outcome, lockVars, pageId, url, last, indicator,
                   stealthVars, now, client, histVars>>


\* URLs a page may be on when _goto_home is called: no page loaded,
\* another host (its query may hold the base URL), a host whose name
\* begins like the base URL, the base URL with or without path and query,
\* conversation paths.
OtherHost == <<"X">>
HomeUrls ==
    {AboutBlank, OtherHost, OtherHost \o Marker \o <<"a">>,
     OtherHost \o <<"?">> \o BaseUrl, BaseUrl \o <<"x">>,
     BaseUrl \o <<"x">> \o Marker \o <<"a">>, BaseUrl \o <<"/">>,
     BaseUrl \o <<"/", "g">>} \cup PageUrls
\* Where goto(base_url) leaves the page: the URL as given or normalised
\* with a trailing slash.
HomeLandings == {BaseUrl, BaseUrl \o <<"/">>}

\* _goto_home called on the client between turns, as the step of a turn
\* does on the page: `ok` is whether its goto succeeds, `landing` where it
\* leaves the page.  client.steps keeps what each call did.
GotoHomeAlone(ok, landing) ==
    /\ client.phase = "ready"
    /\ ~pageClosed
    /\ \A r \in Reqs : pc[r] \notin TurnPcs
    /\ Len(client.steps) < MaxCalls
    /\ IF NeedsGoto(url)
       THEN /\ IF ok THEN Navigate(landing, NoNode)
               ELSE /\ landing = BaseUrl
                    /\ UNCHANGED <<url, last, indicator>>
            /\ client' = [client EXCEPT !.steps =
                            Append(@, IF ok THEN "goto" ELSE "goto_failed")]
       ELSE /\ ok
            /\ landing = BaseUrl
            /\ client' = [client EXCEPT !.steps = Append(@, "noop")]
            /\ UNCHANGED <<url, last, indicator>>
    /\ UNCHANGED <<pc, req, loc, outcome, lockVars, pageId, pageClosed,
                   stealthVars, now, closes, histVars>>

\* ------------------------------------------------ start-up and teardown
\* The first two checks of _apply_stealth: stealth is asked for and the
\* import of playwright_stealth failed.
StealthNeverMissing(c) == FALSE
StealthMissing(c) == UseStealth /\ ~c.stealth_lib

\* The calls of _start up to the page, and the ones after _apply_stealth.
Launched(c) ==
    <<"playwright_start">> \o
    (IF c.persistent THEN <<"launch_persistent_context", "page">>
                     ELSE <<"launch", "new_context", "new_page">>)
Prepared == <<"add_cookies", "set_default_timeout", "goto">>

\* startup(): one call of create(), that is __init__ and _start.  The
\* browser may fail to launch (`launchOk`), _apply_stealth raises
\* RuntimeError without the stealth library, the first goto may fail
\* (`gotoOk`).  create() returns the client only if _start returned; an
\* exception leaves startup() and the application does not serve.
Start(launchOk, gotoOk) ==
    /\ client.phase = "new"
    /\ IF ~launchOk
       THEN /\ client' = [client EXCEPT !.phase = "failed",
                                        !.error = "PlaywrightError",
                                        !.playwright = TRUE,
                                        !.steps = SubSeq(Launched(client), 1, 2)]
            /\ UNCHANGED <<pageVars, stealthVars>>
       ELSE IF StealthMissing(client)
       THEN /\ client' = [client EXCEPT !.phase = "failed",
                                        !.error = "RuntimeError",
                                        !.playwright = TRUE,
                                        !.browser = ~client.persistent,
                                        !.context = TRUE,
                                        !.page = TRUE,
                                        !.steps = Launched(client) \o
                                                  <<"apply_stealth">>]
            /\ pageId' = 1
            /\ pageClosed' = FALSE
            /\ UNCHANGED <<url, last, indicator, stealthVars>>
       ELSE /\ client' = [client EXCEPT !.phase = IF gotoOk THEN "ready"
                                                  ELSE "failed",
                                        !.error = IF gotoOk THEN ""
                                                  ELSE "PlaywrightError",
                                        !.playwright = TRUE,
                                        !.browser = ~client.persistent,
                                        !.context = TRUE,
                                        !.page = TRUE,
                                        !.cookie = TRUE,
                                        !.steps = Launched(client) \o
                                                  <<"apply_stealth">> \o Prepared]
            /\ pageId' = 1
            /\ pageClosed' = FALSE
            /\ stealthCtx' = UseStealth
            /\ stealthPages' = IF UseStealth THEN {1} ELSE {}
            /\ setup' = [stealth |-> UseStealth, timeout |-> TRUE]
            /\ Navigate(IF gotoOk THEN BaseUrl ELSE AboutBlank, NoNode)
    /\ UNCHANGED <<pc, req, loc, outcome, lockVars, now, closes, histVars>>

\* The handles close() looks at, in its order, those that are set.
Handles(c) ==
    SelectSeq(<<"page", "context", "browser", "playwright">>, LAMBDA h : c[h])
Position(seq, x) == CHOOSE i \in 1 .. Len(seq) : seq[i] = x

\* shutdown(): close() tears the handles down one after the other, with no
\* handler around any of them: the step `failAt` raises and ends close();
\* shutdown() swallows what leaves close() and forgets the client.  The
\* server runs it once no request is in progress.
Close(failAt) ==
    /\ client.phase = "ready"
    /\ \A r \in Reqs : pc[r] \in {"idle", "done"}
    /\ failAt \in {"none"} \cup {"page", "context", "browser", "playwright"}
    /\ failAt # "none" => client[failAt]
    /\ LET hs == Handles(client)
           tried == IF failAt = "none" THEN hs
                    ELSE SubSeq(hs, 1, Position(hs, failAt))
       IN  /\ client' = [client EXCEPT !.phase = "closed",
                                       !.torn = tried,
                                       !.closeError = IF failAt = "none" THEN ""
                                                      ELSE "PlaywrightError"]
           /\ pageClosed' = (pageClosed \/ failAt # "page")
    /\ UNCHANGED <<pc, req, loc, outcome, lockVars, pageId, url, last, indicator,
                   stealthVars, now, closes, histVars>>


\* ------------------------------------------------- specifications
\* The second phase of _wait_for_response, common to all specifications.
Detect(r) ==
    \/ AwaitNewFound(r)
    \/ AwaitNewTimeout(r)
    \/ LoopTest(r)
    \/ ReadText(r)
    \/ CheckGenerating(r)
    \/ Sleep(r)

\* The service: MaxReq concurrent requests for a fresh chat.  Of the
\* element waits only the composer's may fail; the page produces a reply
\* to a turn, or none.
Next ==
    \/ \E r \in Reqs :
         \/ \E in \in ServiceInputs : Arrive(r, in)
         \/ Resume(r)
         \/ EnsurePage(r, TRUE)
         \/ GotoHome(r, TRUE)
         \/ \E ok \in BOOLEAN : WaitForComposer(r, ok)
         \/ GetLastAssistantId(r)
         \/ FillPrompt(r)
         \/ ClickSend(r, "ok")
         \/ Detect(r)
    \/ Tick
    \/ AppendReply("a")

Spec == Init /\ [][Next]_vars

\* The event loop runs every coroutine that is ready, and time passes.
Step(r) ==
    \/ Resume(r)
    \/ EnsurePage(r, TRUE)
    \/ GotoHome(r, TRUE)
    \/ \E ok \in BOOLEAN : WaitForComposer(r, ok)
    \/ GetLastAssistantId(r)
    \/ FillPrompt(r)
    \/ ClickSend(r, "ok")
    \/ Detect(r)

FairSpec == Spec /\ WF_vars(Tick) /\ \A r \in Reqs : WF_vars(Step(r))

\* One request with any arguments: every call of the navigation may fail
\* and the page may have been closed; the page produces one reply.
TurnNext ==
    \/ \E in \in TurnInputs : Arrive(1, in)
    \/ \E ok \in BOOLEAN : EnsurePage(1, ok)
    \/ \E ok \in BOOLEAN, content \in {NoNode} \cup OldNodes :
         GotoConversation(1, ok, content)
    \/ \E res \in {"ok", "url", "composer"} : WaitForConversationReady(1, res)
    \/ \E ok \in BOOLEAN : GotoHome(1, ok)
    \/ \E shown \in SUBSET Toggles, appears \in BOOLEAN :
         SetTemporaryChat(1, shown, appears)
    \/ \E ok \in BOOLEAN : WaitForComposer(1, ok)
    \/ GetLastAssistantId(1)
    \/ FillPrompt(1)
    \/ \E res \in Buttons : ClickSend(1, res)
    \/ Detect(1)
    \/ Tick
    \/ AppendReply("a")
    \/ \E u \in PageUrls : Relocate(u)
    \/ ClosePage

TurnSpec == Init /\ [][TurnNext]_vars

\* One request for an existing conversation whose navigation succeeds,
\* against any page: the conversation holds an old reply, with or without
\* identifier; the reply of the turn streams, changes and is
\* cleared; the indicator comes and goes.
DetectNext ==
    \/ \E in \in DetectInputs : Arrive(1, in)
    \/ EnsurePage(1, TRUE)
    \/ \E content \in OldNodes : GotoConversation(1, TRUE, content)
    \/ WaitForConversationReady(1, "ok")
    \/ WaitForComposer(1, TRUE)
    \/ GetLastAssistantId(1)
    \/ FillPrompt(1)
    \/ ClickSend(1, "ok")
    \/ Detect(1)
    \/ Tick
    \/ \E t \in Texts : AppendReply(t)
    \/ \E t \in Texts : ChangeText(t)
    \/ \E b \in BOOLEAN : SetIndicator(b)

DetectSpec == Init /\ [][DetectNext]_vars

\* One request for a fresh chat with a timeout of NormalTimeout seconds on
\* the page of a new session: every element wait succeeds, the indicator
\* never shows, and the service may answer with one reply whose text does
\* not change.  The event loop runs the coroutine and time passes.
NormalStep ==
    \/ EnsurePage(1, TRUE)
    \/ GotoHome(1, TRUE)
    \/ WaitForComposer(1, TRUE)
    \/ GetLastAssistantId(1)
    \/ FillPrompt(1)
    \/ ClickSend(1, "ok")
    \/ Detect(1)

NormalNext ==
    \/ \E in \in NormalInputs : Arrive(1, in)
    \/ NormalStep
    \/ Tick
    \/ AppendReply("a")
    \/ Redirect

NormalSpec ==
    Init /\ [][NormalNext]_vars /\ WF_vars(Tick) /\ WF_vars(NormalStep)


\* Two requests for a fresh chat: the first carries any attachment list,
\* the second none; both run their turns as in the service.
AttachNext ==
    \/ \E in \in AttachInputs : Arrive(1, in)
    \/ \E in \in PlainInputs : Arrive(2, in)
    \/ \E r \in {1, 2} : Step(r)
    \/ Tick
    \/ AppendReply("a")

AttachSpec == Init /\ [][AttachNext]_vars


\* Two requests for a fresh chat, one after the other or together, on a
\* session whose page is closed behind its back now and then; the
\* navigation that follows the creation of a page may fail.
PageNext ==
    \/ \E r \in {1, 2} :
         \/ \E in \in PlainInputs : Arrive(r, in)
         \/ Step(r)
         \/ EnsurePage(r, FALSE)
    \/ Tick
    \/ AppendReply("a")
    \/ ClosePage

PageSpec == Init /\ [][PageNext]_vars


\* The request of DetectSpec with a timeout of one second or less, against
\* the same page.
ShortNext ==
    \/ \E in \in ShortInputs : Arrive(1, in)
    \/ EnsurePage(1, TRUE)
    \/ \E content \in OldNodes : GotoConversation(1, TRUE, content)
    \/ WaitForConversationReady(1, "ok")
    \/ WaitForComposer(1, TRUE)
    \/ GetLastAssistantId(1)
    \/ FillPrompt(1)
    \/ ClickSend(1, "ok")
    \/ Detect(1)
    \/ Tick
    \/ \E t \in Texts : AppendReply(t)
    \/ \E t \in Texts : ChangeText(t)
    \/ \E b \in BOOLEAN : SetIndicator(b)

ShortSpec == Init /\ [][ShortNext]_vars

\* One request for an existing conversation whose document loads without
\* its messages (the wait for a message element times out and falls back
\* to the idle network): the messages are rendered at any later moment of
\* the turn; the reply of the turn appears and grows once.
LateNext ==
    \/ \E in \in LateInputs : Arrive(1, in)
    \/ EnsurePage(1, TRUE)
    \/ GotoConversation(1, TRUE, NoNode)
    \/ WaitForConversationReady(1, "ok")
    \/ WaitForComposer(1, TRUE)
    \/ GetLastAssistantId(1)
    \/ FillPrompt(1)
    \/ ClickSend(1, "ok")
    \/ Detect(1)
    \/ Tick
    \/ AppendReply("a")
    \/ ChangeText("b")
    \/ \E b \in BOOLEAN : SetIndicator(b)
    \/ LoadHistory

LateSpec == Init /\ [][LateNext]_vars

\* Two requests, each for one of two existing conversations, one after the
\* other or together, on one session: every navigation succeeds and every
\* wait finds what it waits for.
NavNext ==
    \/ \E r \in {1, 2} :
         \/ \E in \in NavInputs : Arrive(r, in)
         \/ Resume(r)
         \/ EnsurePage(r, TRUE)
         \/ \E content \in {NoNode, Node("m0", OldText)} :
              GotoConversation(r, TRUE, content)
         \/ WaitForConversationReady(r, "ok")
         \/ WaitForComposer(r, TRUE)
         \/ GetLastAssistantId(r)
         \/ FillPrompt(r)
         \/ ClickSend(r, "ok")
         \/ Detect(r)
    \/ Tick
    \/ AppendReply("a")

NavSpec == Init /\ [][NavNext]_vars

\* _goto_home called up to MaxCalls times in a row on a page that is on
\* any of HomeUrls.
HomeInit ==
    /\ pc = [r \in Reqs |-> "idle"]
    /\ req = [r \in Reqs |-> NoInput]
    /\ loc = [r \in Reqs |-> NoLoc]
    /\ outcome = [r \in Reqs |-> Pending]
    /\ locked = FALSE
    /\ waiters = <<>>
    /\ woken = {}
    /\ pageId = 1
    /\ pageClosed = FALSE
    /\ url \in HomeUrls
    /\ last = NoNode
    /\ indicator = FALSE
    /\ stealthCtx = TRUE
    /\ stealthPages = {1}
    /\ setup = [stealth |-> TRUE, timeout |-> TRUE]
    /\ now = 0
    /\ closes = 0
    /\ client = ReadyClient
    /\ calls = [r \in Reqs |-> {}]
    /\ arrivals = <<>>
    /\ starts = <<>>
    /\ obs = NoObs

HomeNext == \E ok \in BOOLEAN, landing \in HomeLandings : GotoHomeAlone(ok, landing)

HomeSpec == HomeInit /\ [][HomeNext]_vars

\* The life of the application: startup() with or without a user data
\* directory and with or without the stealth library, requests for a fresh
\* chat while the client is there, shutdown().
LifeInit ==
    /\ pc = [r \in Reqs |-> "idle"]
    /\ req = [r \in Reqs |-> NoInput]
    /\ loc = [r \in Reqs |-> NoLoc]
    /\ outcome = [r \in Reqs |-> Pending]
    /\ locked = FALSE
    /\ waiters = <<>>
    /\ woken = {}
    /\ pageId = 0
    /\ pageClosed = TRUE
    /\ url = AboutBlank
    /\ last = NoNode
    /\ indicator = FALSE
    /\ stealthCtx = FALSE
    /\ stealthPages = {}
    /\ setup = [stealth |-> FALSE, timeout |-> FALSE]
    /\ now = 0
    /\ closes = 0
    /\ \E p, l \in BOOLEAN :
         client = [NewClient EXCEPT !.persistent = p, !.stealth_lib = l]
    /\ calls = [r \in Reqs |-> {}]
    /\ arrivals = <<>>
    /\ starts = <<>>
    /\ obs = NoObs

LifeNext ==
    \/ \E launchOk, gotoOk \in BOOLEAN : Start(launchOk, gotoOk)
    \/ \E r \in {1, 2} :
         \/ \E in \in PlainInputs : Arrive(r, in)
         \/ Step(r)
    \/ Tick
    \/ AppendReply("a")
    \/ \E failAt \in {"none", "page", "context", "browser", "playwright"} :
         Close(failAt)

LifeSpec == LifeInit /\ [][LifeNext]_vars

\* ------------------------------------------------------------ claims
InTurn(r) == pc[r] \in TurnPcs
StartedReqs == {starts[i].r : i \in 1 .. Len(starts)}

\* C1: the automation steps of two turns never interleave: at most one
\* request is between taking the lock and its result, and when a turn has
\* started every turn started before it has produced its result or error.
C1_TurnsNeverInterleave ==
    /\ \A r1, r2 \in Reqs : InTurn(r1) /\ InTurn(r2) => r1 = r2
    /\ \A i, j \in 1 .. Len(starts) :
         i < j => outcome[starts[i].r].status # 0

\* A turn that had to wait for the lock is running after the one before it
\* has answered, while a third request waits.
C1_Witness ==
    \E i \in 2 .. Len(starts) :
        /\ starts[i].resumed
        /\ pc[starts[i].r] \in DetectPcs
        /\ outcome[starts[i - 1].r].status # 0
        /\ waiters # <<>>

\* The detector of request r has ended, by a return or by an exception.
Ended(r) == pc[r] = "done" /\ obs.who = r /\ obs.endAt >= 0
\* ... by the return of the loop.
Accepted(r) == Ended(r) /\ obs.accepted

\* C2: a loop that returns the text of the turn's new reply returns no
\* earlier than 1.5 s after the latest poll whose text differed from the
\* poll before it, and what it returns is the text of that poll.
C2_DebounceAfterLastChange ==
    \A r \in Reqs :
        Accepted(r) /\ outcome[r].response # OldText =>
            /\ obs.changeAge >= StabilityWindow
            /\ outcome[r].response = obs.lastRead

\* C3: a request with a conversation id and temporary_chat = true issues no
\* automation call, and what it ends in is the validation error.
C3_ConflictIssuesNoCall ==
    \A r \in Reqs :
        Conflict(req[r]) =>
            /\ calls[r] = {}
            /\ pc[r] = "done" => outcome[r].exc = "ValueError"

\* C4: a turn with a timeout of at least one second during whose wait no
\* reply element with non-empty text and an identifier other than
\* previous_id was on the page ends in "Timed out waiting for ChatGPT
\* response", and a turn ends in "Timed out waiting for ChatGPT to finish
\* responding" only after the first wait has returned.
C4_NoReplyTimeout ==
    \A r \in Reqs :
        /\ Ended(r) /\ ~obs.newSeen /\ req[r].timeout >= 1 =>
               outcome[r].detail = "no_reply"
        /\ pc[r] = "done" /\ outcome[r].detail = "not_finished" =>
               obs.who = r /\ obs.entered

\* C5: a turn whose first wait has returned and whose loop has not
\* returned its text ends in the failure "Timed out waiting for ChatGPT to
\* finish responding": HTTP 502, no response record, no reply text.
C5_UnfinishedIsFailure ==
    \A r \in Reqs :
        Ended(r) /\ obs.entered /\ ~obs.accepted =>
            outcome[r] = [Pending EXCEPT !.status = 502, !.exc = "RuntimeError",
                                         !.detail = "not_finished"]

\* The loop has expired after it had read a non-empty text from the page.
C5_Witness ==
    \E r \in Reqs :
        /\ Ended(r) /\ obs.entered /\ ~obs.accepted
        /\ obs.lastRead \in {"a", "b", OldText}

\* C6: for a timeout of at least one second, _wait_for_response ends within
\* the timeout plus one poll interval of the click.
C6_TimeoutBoundsWholeWait ==
    \A r \in Reqs :
        Ended(r) /\ req[r].timeout >= 1 =>
            obs.endAt <= LoopBound(req[r].timeout) + 1

\* C7: when the loop returns the text of the turn's new reply, that text was
\* last replaced at least 1.5 s before and no poll of those 1.5 s found the
\* generation indicator.
C7_NoIndicatorInWindow ==
    \A r \in Reqs :
        Accepted(r) /\ outcome[r].response # OldText =>
            /\ obs.keptAge >= StabilityWindow
            /\ obs.genAge >= StabilityWindow

\* C8: in NormalSpec, once the first wait can return (a reply with text is
\* on the page before the timeout), the turn ends with HTTP 200, the text
\* of the reply, the conversation id of the page's URL and failed = false;
\* and it does not end so before the text has been stable for 1.5 s.
C8_Response ==
    [Pending EXCEPT !.status = 200, !.hasResult = TRUE, !.response = "a",
                    !.conversation_id =
                        IF url = BaseUrl THEN None ELSE NewConversation]
C8_NormalTurnCompletes ==
    /\ (pc[1] = "await_new" /\ now < loc[1].deadline
            /\ NewReplyPredicate(loc[1].previous_id))
         ~> (pc[1] = "done" /\ outcome[1] = C8_Response)
    /\ [](pc[1] = "done" /\ outcome[1].status = 200 =>
             obs.accepted /\ obs.changeAge >= StabilityWindow)

\* The reply appeared two seconds or more after the click and the turn
\* has answered with it and with the conversation id of the new URL.
C8_Witness ==
    /\ pc[1] = "done"
    /\ outcome[1] = C8_Response
    /\ outcome[1].conversation_id = NewConversation
    /\ obs.endAt >= 2 * TicksPerSecond + StabilityWindow

\* C9: a request that finds the lock taken is not answered before it has
\* run its turn, the lock is free whenever no turn runs (whether the last
\* one ended in a result or in a failure), and every waiting request
\* eventually starts its turn.
C9_WaitersBlockThenRun ==
    /\ [](\A r \in Reqs : outcome[r].status # 0 => r \in StartedReqs)
    /\ []((\A r \in Reqs : ~InTurn(r)) => ~locked)
    /\ \A r \in Reqs : (pc[r] = "waiting") ~> InTurn(r)

\* A request that had to wait runs its turn after a turn that failed.
C9_Witness ==
    \E i \in 2 .. Len(starts) :
        /\ starts[i].resumed
        /\ InTurn(starts[i].r)
        /\ outcome[starts[i - 1].r].status = 502

\* C10: turns start in the order in which the requests reached the lock,
\* and a turn starts only after the turns of all earlier arrivals ended.
C10_FifoOrder ==
    /\ \A i \in 1 .. Len(starts) : starts[i].r = arrivals[i]
    /\ \A i, j \in 1 .. Len(arrivals) :
         i < j /\ arrivals[j] \in StartedReqs => pc[arrivals[i]] = "done"

\* A request got the lock while another one, which arrived after it, was
\* waiting too.
C10_Witness ==
    \E i \in 1 .. Len(starts) :
        /\ starts[i].resumed
        /\ starts[i].behind >= 1
        /\ InTurn(starts[i].r)

\* C11: the conversation id of a result is the part of the page's URL
\* between the marker "/c/" and the query suffix, and None for a URL
\* without marker, whatever conversation the request named.
C11_IdFromUrl ==
    \A r \in Reqs :
        pc[r] = "done" /\ outcome[r].hasResult =>
            \A q \in Queries :
                /\ url = BaseUrl \o q => outcome[r].conversation_id = None
                /\ \A c \in PageConvs :
                      url = ConversationUrl(c) \o q =>
                          outcome[r].conversation_id = c

\* A turn requested for conversation "a" has ended on the URL of another
\* conversation, with a query suffix, and reports that conversation.
C11_Witness ==
    \E r \in Reqs :
        /\ pc[r] = "done" /\ outcome[r].hasResult
        /\ req[r].conversation_id = <<"a">>
        /\ url = ConversationUrl(NewConversation) \o <<"?", "q">>
        /\ outcome[r].conversation_id = NewConversation

\* A conversation id that is given and is empty once stripped.
EmptyId(in) == in.conversation_id # None /\ Strip(in.conversation_id) = <<>>

\* C12: on a session whose page is open, a request whose conversation id
\* is empty or whitespace issues no automation call, and what it ends in
\* is the validation error.
C12_EmptyIdRejected ==
    \A r \in Reqs :
        EmptyId(req[r]) /\ closes = 0 =>
            /\ calls[r] = {}
            /\ pc[r] = "done" => outcome[r].exc = "ValueError"

\* The exception types send_message raises itself: ValueError for a
\* rejected argument, RuntimeError for a missing element or a timeout of
\* the response.
NormalizedErrors == {"ValueError", "RuntimeError"}

\* C13: the exception that leaves a failed turn is one that send_message
\* raises itself, never the error type of the automation library.
C13_NoNativeError ==
    \A r \in Reqs :
        pc[r] = "done" /\ outcome[r].status = 502 =>
            outcome[r].exc \in NormalizedErrors

\* The media type written in a data URL, and the content type a request
\* image resolves to: the declared one, else the one of the data URL, else
\* the one of the file extension, else none.
MediaOf(data) ==
    IF Contains(data, ImageType) THEN ImageType
    ELSE IF Contains(data, TextType) THEN TextType
    ELSE None
ResolvesTo(image) ==
    IF TruthyStr(image.content_type) THEN Strip(image.content_type)
    ELSE IF MediaOf(image.data_base64) # None THEN MediaOf(image.data_base64)
    ELSE IF GuessType(Strip(image.name)) # None THEN GuessType(Strip(image.name))
    ELSE <<>>
HasBadImage(in) ==
    \E i \in 1 .. Len(in.images) :
        \/ Strip(in.images[i].name) = <<>>
        \/ in.images[i].data_base64 \in CorruptData
        \/ ~StartsWith(ResolvesTo(in.images[i]), <<"image/">>)

\* C14: a request with an attachment that is corrupt, has an empty name or
\* resolves to a non-image type is answered with HTTP 400 without having
\* reached the lock or issued an automation call, and the step that
\* rejects it leaves lock, page, stealth state and clock as they were.
C14_BadAttachmentRejected ==
    /\ [](\A r \in Reqs :
            HasBadImage(req[r]) =>
                /\ pc[r] = "done" /\ outcome[r].status = 400
                /\ calls[r] = {}
                /\ r \notin StartedReqs
                /\ \A i \in 1 .. Len(arrivals) : arrivals[i] # r)
    /\ [][\A r \in Reqs :
            pc[r] = "idle" /\ HasBadImage(req'[r]) =>
                UNCHANGED <<lockVars, pageVars, stealthVars, now, calls>>]_vars

\* A request whose second attachment is corrupt has been rejected while
\* the turn of another request was holding the lock.
C14_Witness ==
    /\ pc[1] = "done" /\ outcome[1].status = 400
    /\ Len(req[1].images) = 2
    /\ req[1].images[1] = GoodImage
    /\ req[1].images[2].data_base64 \in CorruptData
    /\ InTurn(2) /\ locked

\* C15: in one turn the message is typed at most once and the send button
\* clicked at most once, and a request that has been answered, with a
\* result or with a failure, issues no further call.
C15_NoRetry ==
    /\ [](\A r \in Reqs :
            "type_again" \notin calls[r] /\ "click_send_again" \notin calls[r])
    /\ [][\A r \in Reqs :
            pc[r] = "done" =>
                pc'[r] = "done" /\ calls'[r] = calls[r] /\ outcome'[r] = outcome[r]]_vars

\* A turn has typed and submitted its message and has then failed with
\* "Timed out waiting for ChatGPT to finish responding".
C15_Witness ==
    \E r \in Reqs :
        /\ pc[r] = "done" /\ outcome[r].detail = "not_finished"
        /\ {"type", "click_send"} \subseteq calls[r]

\* C16: when a turn is about to navigate, the page is open; and if the
\* turn had to create it, the page has received the stealth treatment and
\* the default timeout and shows the base URL.
C16_PageReadyBeforeTurn ==
    \A r \in Reqs :
        pc[r] \in {"goto_conversation", "goto_home"} =>
            /\ ~pageClosed
            /\ "new_page" \in calls[r] =>
                   setup.stealth /\ setup.timeout /\ url = BaseUrl

\* C17: once close() has ended, no error has left it, and it has tried to
\* tear down every handle it holds, the page, then the context, then the
\* browser, whatever a step raised.  (close() has no handler: the error of
\* a step leaves close() and the later steps are not tried.)
C17_TeardownBestEffort ==
    client.phase = "closed" =>
        /\ client.closeError = ""
        /\ client.torn = Handles(client)

\* C18: when stealth is asked for and the stealth library is missing,
\* create() fails, with RuntimeError once the browser is there, _start is
\* entered once and a failed start-up is final, no cookie is written, no
\* navigation is issued, and no client is handed out (no request is
\* served).
StartsOf(c) == Cardinality({i \in 1 .. Len(c.steps) : c.steps[i] = "playwright_start"})
C18_FatalWithoutStealth ==
    /\ [](UseStealth /\ ~client.stealth_lib =>
            /\ client.phase \in {"new", "failed"}
            /\ client.page => client.error = "RuntimeError"
            /\ ~client.cookie
            /\ \A i \in 1 .. Len(client.steps) :
                 client.steps[i] \notin {"add_cookies", "goto"}
            /\ StartsOf(client) <= 1
            /\ url # BaseUrl
            /\ \A r \in Reqs : pc[r] = "idle")
    /\ [][client.phase = "failed" => client' = client]_vars
C18_Witness ==
    /\ client.phase = "failed"
    /\ client.error = "RuntimeError"
    /\ client.page
    /\ ~client.stealth_lib

\* C19: the detector leaves its first wait only while the latest reply
\* element has non-empty text and an identifier that differs from
\* previous_id, an absent identifier being equal to an absent previous_id.
\* (The predicate is `prevId && id === prevId`: with previous_id null it
\* lets the reply of before the click through.)
C19_LeavesOnNewReply ==
    [][\A r \in Reqs :
         pc[r] = "await_new" /\ pc'[r] = "loop" => DiffersFrom(loc[r].previous_id)]_vars

\* C20: when _goto_conversation and _wait_for_conversation_ready have
\* returned, the page is on the conversation that was asked for, and not
\* on one whose id only begins with the id asked for.  (Both the skip of
\* the navigation and wait_for_url compare by prefix.)
C20_OnRequestedConversation ==
    \A r \in Reqs :
        pc[r] = "wait_for_composer" /\ TruthyStr(req[r].conversation_id) =>
            GetConversationId(url) = Strip(req[r].conversation_id)

\* C21: of two calls of _goto_home in a row, the first of which returned,
\* the second issues no navigation.
C21_GotoHomeIdempotent ==
    \A i \in 1 .. Len(client.steps) - 1 :
        client.steps[i] \in {"goto", "noop"} => client.steps[i + 1] = "noop"
C21_Witness ==
    /\ Len(client.steps) >= 2
    /\ client.steps[1] = "goto"
    /\ client.steps[2] = "noop"
    /\ url = BaseUrl \o <<"/">>

\* C22: a call of _set_temporary_chat that finds the wanted variant
\* visible clicks nothing; one that finds only the other variant clicks
\* that one and nothing else; a call that returned has found the wanted
\* variant on the page, before or after its click.
ToggleClicks(r) == calls[r] \cap {"click_turn_on", "click_turn_off"}
C22_ToggleSetsWantedState ==
    \A r \in Reqs :
        LET enabled == TruthyFlag(req[r].temporary_chat)
            wanted == Wanted(enabled)
        IN  /\ "shown_" \o wanted \in calls[r] => ToggleClicks(r) = {}
            /\ ("shown_" \o Opposite(enabled) \in calls[r]
                  /\ "shown_" \o wanted \notin calls[r])
                 => ToggleClicks(r) = {"click_" \o Opposite(enabled)}
            /\ "temporary_chat_set" \in calls[r]
                 => ("shown_" \o wanted \in calls[r]
                       \/ "appeared_" \o wanted \in calls[r])
C22_Witness ==
    \E r \in Reqs :
        /\ req[r].temporary_chat = "False"
        /\ {"shown_turn_off", "click_turn_off", "appeared_turn_on",
            "temporary_chat_set"} \subseteq calls[r]
        /\ "shown_turn_on" \notin calls[r]

\* C23: with stealth enabled, the context is treated once and its flag is
\* never cleared, no page is forgotten by the bookkeeping (so none is
\* treated again), and every page the session holds open has received the
\* treatment when it was created, pages created after the closure of
\* earlier ones included.  (The bookkeeping is keyed by id(), which a new
\* page can share with a discarded one.)
C23_EveryPageTreatedOnce ==
    /\ [](UseStealth /\ client.phase = "ready" /\ ~pageClosed => setup.stealth)
    /\ [][stealthCtx => stealthCtx']_vars
    /\ [][stealthPages \subseteq stealthPages']_vars

\* C24: the send button is clicked only after it has appeared and, if it
\* was seen disabled, only after the poll has seen it enabled; when it was
\* seen disabled and never enabled, nothing is clicked and the turn fails.
C24_ClickOnlyWhenEnabled ==
    \A r \in Reqs :
        /\ "click_send" \in calls[r] =>
               /\ "is_disabled" \in calls[r]
               /\ "send_disabled" \in calls[r] => "send_enabled" \in calls[r]
        /\ ("send_disabled" \in calls[r] /\ "send_enabled" \notin calls[r]) =>
               /\ "click_send" \notin calls[r]
               /\ pc[r] = "done"
               /\ outcome[r].status = 502
C24_Witness ==
    \E r \in Reqs :
        /\ {"send_disabled", "send_enabled", "click_send"} \subseteq calls[r]
        /\ pc[r] = "await_new"

\* C25: a turn that succeeds does not answer with the text of a reply the
\* conversation held before the message was sent.  (previous_id is read
\* from whatever the page shows at that moment: when the old messages are
\* rendered later, it is null and the old reply passes for a new one.)
C25_NeverReturnsOldReply ==
    \A r \in Reqs : outcome[r].status = 200 => outcome[r].response # OldText

\* C26: when the loop returns the text of the turn's new reply in a poll
\* that read that text, it is the text of the latest reply at the moment
\* the poll finds no indicator.  (The text read and the indicator check are two awaits;
\* the page may change between them.)
C26_ReturnsTextOfIndicatorCheck ==
    [][\A r \in Reqs :
         (/\ pc[r] = "is_generating"
          /\ pc'[r] = "done"
          /\ outcome'[r].status = 200
          /\ outcome'[r].response # OldText
          /\ obs.lastRead = outcome'[r].response)
             => outcome'[r].response = LastAssistantText]_vars

====
